---- MODULE Spec2Model ----
(***************************************************************************)
(* Model of fetchStudentAssignments                                        *)
(* (src/src/components/teacher/AssignmentUploader.tsx, lines 501-603):     *)
(* the routine that gathers a student's enrollments, resolves course       *)
(* titles, scans the assignment collection once per course id, fetches the *)
(* student's submissions and joins the three into a list of views.         *)
(*                                                                         *)
(* The four stores are facets of the hosted realtime database.  A store is *)
(* a sequence of child records in the database's iteration order (key      *)
(* order); the key of the i-th child is i.  The stores do not change       *)
(* during an invocation.  Every `await get(...)` is a suspension point:    *)
(* the call is issued by the step before it and is answered by a Return    *)
(* or a Throw action.                                                      *)
(***************************************************************************)
EXTENDS Integers, Sequences, FiniteSets, TLC

(***************************************************************************)
(* Bounds of the model.                                                    *)
(***************************************************************************)
MaxEnroll == 2
MaxAssign == 2
MaxSub == 2

(***************************************************************************)
(* JavaScript values.                                                      *)
(***************************************************************************)
Undefined == "<undefined>"
Null == [null |-> TRUE]

\* a guard that tests only for undefined
FalsyUndefinedOnly(x) == x = Undefined

\* !x for a value that is a string or undefined
Falsy(x) == x \in {Undefined, ""}

\* a || b
OrElse(a, b) == IF Falsy(a) THEN b ELSE a

(***************************************************************************)
(* The data the stores may hold.                                           *)
(***************************************************************************)
Students == {"s1", "s2"}
Courses == {"A", "B"}
UserIds == {Undefined, "", "s1"}

CourseTitle(c) == IF c = "A" THEN "Algebra" ELSE "Biology"

SeqsUpTo(S, n) == UNION {[1..k -> S] : k \in 0..n}

EnrollmentRecords == [student_id : Students, course_id : Courses]

\* courses/<id>: no node, a node without a title, with an empty or a real title
CourseNodes(c) ==
    {[exists |-> FALSE, title |-> Undefined],
     [exists |-> TRUE, title |-> Undefined],
     [exists |-> TRUE, title |-> ""],
     [exists |-> TRUE, title |-> CourseTitle(c)]}

CourseStores == {cs \in [Courses -> UNION {CourseNodes(c) : c \in Courses}] :
                    \A c \in Courses : cs[c] \in CourseNodes(c)}

TitledCourses == [c \in Courses |-> [exists |-> TRUE, title |-> CourseTitle(c)]]

\* an assignment as handleSubmit writes it: no assignmentType, no textContent
PlainAssignments ==
    [course_id : Courses, description : {"desc"},
     textContent : {Undefined}, assignmentType : {Undefined}]

\* assignments of any origin, AI-generated ones included
AnyAssignments ==
    [course_id : Courses, description : {"", "desc"},
     textContent : {Undefined, "text"}, assignmentType : {Undefined, "quiz"}]

\* submissions of the queried student for either key, and one of another student
SubmissionRecords ==
    {r \in [assignment_id : {1, 2}, user_id : Students] :
        r.user_id = "s1" \/ r.assignment_id = 1}

(***************************************************************************)
(* State.                                                                  *)
(***************************************************************************)
VARIABLES
    enrollments,     \* Enrollment Store: enrollments/*
    courses,         \* Course Store: courses/<id>
    assignments,     \* Assignment Store: assignments/*
    submissions,     \* Submission Store: submissions/*
    userId,          \* the argument of the invocation
    pc,              \* where the invocation is suspended
    courseIds,       \* local courseIds
    idx,             \* position of the running for-of loop in courseIds
    coursesMap,      \* local coursesMap
    assignmentsData, \* local assignmentsData
    result,          \* the list the promise resolves with
    outcome,         \* "pending", "resolved" or "rejected"
    toasts,          \* number of toast.error notifications raised
    calls,           \* the store calls issued so far, in order
    thrown           \* positions in calls of the calls that threw

(***************************************************************************)
(* State of the AssignmentUploader component (lines 55-232): the form      *)
(* fields and flags of useState, the props and the auth context, and what  *)
(* its two handlers, handleSubmit and generateAssignment, have done.       *)
(***************************************************************************)
VARIABLES
    title,              \* useState("")
    description,        \* useState("")
    dueDate,            \* useState<Date | undefined>(undefined)
    points,             \* useState("10")
    file,               \* useState<File | null>(null): the file's name, or null
    isLoading,          \* useState(false)
    isGenerating,       \* useState(false)
    generatingProgress, \* useState(0)
    user,               \* user?.id of useAuth()
    propCourseId,       \* the courseId prop
    spc,                \* where handleSubmit is
    gpc,                \* where generateAssignment is
    dbWrites,           \* the records handed to set(), in order
    notices,            \* the toasts raised by the component, in order
    edgeCalls,          \* number of supabase.functions.invoke calls
    fallbackCalls,      \* number of fallbackToDirectApiCall calls
    edgeReply,          \* how the edge function call ended
    responseOk          \* response.ok of the fallback's fetch

uploader == <<title, description, dueDate, points, file, isLoading, isGenerating,
              generatingProgress, user, propCourseId, spc, gpc, dbWrites, notices,
              edgeCalls, fallbackCalls, edgeReply, responseOk>>

fetchVars == <<enrollments, courses, assignments, submissions, userId, pc, courseIds,
               idx, coursesMap, assignmentsData, result, outcome, toasts, calls, thrown>>

vars == <<fetchVars, uploader>>

stores == <<enrollments, courses, assignments, submissions, userId>>

(***************************************************************************)
(* Store primitives.                                                       *)
(***************************************************************************)
\* childSnapshot.key and childSnapshot.val() of every child, in forEach order
Children(store) == [i \in DOMAIN store |-> [key |-> i, val |-> store[i]]]

\* query(ref, orderByChild(field), equalTo(value))
QueryEqualTo(store, field, value) ==
    SelectSeq(Children(store), LAMBDA ch : ch.val[field] = value)

\* snapshot.exists() of a collection snapshot
Exists(snapshot) == Len(snapshot) > 0

Call(store, op, arg, at) == [store |-> store, op |-> op, arg |-> arg, at |-> at]

(***************************************************************************)
(* Steps of fetchStudentAssignments as pure functions.                     *)
(***************************************************************************)
\* lines 520-523: courseIds.push(childSnapshot.val().course_id) for every child
CourseIdsOf(snapshot) == [i \in DOMAIN snapshot |-> snapshot[i].val.course_id]

\* the lookup without its fallback
CourseNameNoFallback(map, courseId) == map[courseId]

\* line 555: coursesMap[courseId] || 'Unknown Course'
CourseName(map, courseId) == OrElse(map[courseId], "Unknown Course")

\* lines 552-556: { id: childSnapshot.key, ...assignment, course_name }
Decorate(ch, map, courseId) ==
    [id |-> ch.key,
     course_id |-> ch.val.course_id,
     description |-> ch.val.description,
     textContent |-> ch.val.textContent,
     assignmentType |-> ch.val.assignmentType,
     course_name |-> CourseName(map, courseId)]

\* the scan without the course_id test of line 551
MatchAllAssignments(store, map, courseId) ==
    [i \in DOMAIN store |-> Decorate(Children(store)[i], map, courseId)]

\* lines 548-559: the children of the full collection that belong to courseId
MatchAssignments(store, map, courseId) ==
    LET matched == SelectSeq(Children(store), LAMBDA ch : ch.val.course_id = courseId)
    IN  [i \in DOMAIN matched |-> Decorate(matched[i], map, courseId)]

\* lines 576-581: { id: childSnapshot.key, ...childSnapshot.val() }
SubmissionsOf(snapshot) ==
    [i \in DOMAIN snapshot |->
        [id |-> snapshot[i].key,
         assignment_id |-> snapshot[i].val.assignment_id,
         user_id |-> snapshot[i].val.user_id]]

\* a find that compares the submission's own key
FindSubmissionByKey(subs, assignment) ==
    LET hits == {i \in DOMAIN subs : subs[i].id = assignment.id}
    IN  IF hits = {} THEN Null
        ELSE subs[CHOOSE i \in hits : \A j \in hits : i <= j]

\* line 586: submissions.find(s => s.assignment_id === assignment.id)
FindSubmission(subs, assignment) ==
    LET hits == {i \in DOMAIN subs : subs[i].assignment_id = assignment.id}
    IN  IF hits = {} THEN Null
        ELSE subs[CHOOSE i \in hits : \A j \in hits : i <= j]

\* line 592: assignment.assignmentType || "text"
ViewAssignmentType(assignment) == OrElse(assignment.assignmentType, "text")

\* line 593: assignment.description || assignment.textContent
ViewTextContent(assignment) == OrElse(assignment.description, assignment.textContent)

\* lines 585-595: one view
JoinOne(assignment, subs) ==
    LET submission == FindSubmission(subs, assignment)
    IN  [id |-> assignment.id,
         course_id |-> assignment.course_id,
         description |-> assignment.description,
         course_name |-> assignment.course_name,
         submitted |-> submission # Null,
         submission |-> submission,
         assignmentType |-> ViewAssignmentType(assignment),
         textContent |-> ViewTextContent(assignment)]

Join(data, subs) == [i \in DOMAIN data |-> JoinOne(data[i], subs)]

(***************************************************************************)
(* Initial states: any store contents within the bounds, nothing running.  *)
(* The store contents are drawn from three families, each varying the      *)
(* enrollments and the assignments' courses together with one more facet.  *)
(***************************************************************************)
CourseLookupWorlds ==
    /\ courses \in CourseStores
    /\ assignments \in SeqsUpTo(PlainAssignments, MaxAssign)
    /\ enrollments \in SeqsUpTo(EnrollmentRecords, MaxEnroll)
    /\ submissions = <<>>

SubmissionWorlds ==
    /\ courses = TitledCourses
    /\ assignments \in SeqsUpTo(PlainAssignments, MaxAssign)
    /\ enrollments \in SeqsUpTo(EnrollmentRecords, MaxEnroll)
    /\ submissions \in SeqsUpTo(SubmissionRecords, MaxSub)

RecordShapeWorlds ==
    /\ courses = TitledCourses
    /\ assignments \in SeqsUpTo(AnyAssignments, MaxAssign)
    /\ enrollments \in SeqsUpTo(EnrollmentRecords, 1)
    /\ submissions = <<>>

(***************************************************************************)
(* What the form, the props and the collaborators of the component may     *)
(* hold.                                                                   *)
(***************************************************************************)
NoFile == "<null>"
NullDate == "<null>"

Titles == {"", "  ", "Essay", " Essay "}
Descriptions == {"", "desc"}
DueDates == {Undefined, "Mon Nov 30 2026 00:00:00"}
PointsInputs == {"10", "", "0", "25", "5x", "abc"}
Files == {NoFile, "essay.pdf"}
TeacherIds == {Undefined, "", "t1"}
CourseProps == {Undefined, "", "A"}

\* a trim that strips nothing
TrimNothing(t) == t

\* String.prototype.trim on the titles above
Trim(t) ==
    CASE t = "  " -> ""
      [] t = " Essay " -> "Essay"
      [] OTHER -> t

\* format(dueDate, 'yyyy-MM-dd') of date-fns on the dates above
FormatDate(d) == IF d = "Mon Nov 30 2026 00:00:00" THEN "2026-11-30" ELSE "Invalid"

\* parseInt on the inputs above; NaN is not a number of the model
NaN == 0 - 1
ParseInt(p) ==
    CASE p = "10" -> 10
      [] p = "0" -> 0
      [] p = "25" -> 25
      [] p = "5x" -> 5
      [] OTHER -> NaN

\* line 112: parseInt(points) || 10
PointsOf(p) == IF ParseInt(p) = NaN \/ ParseInt(p) = 0 THEN 10 ELSE ParseInt(p)

\* `Assignment on ${values.topic}` for the topic of the AI form
TopicTitle == "Assignment on Sets"

\* { data, error } of supabase.functions.invoke: an error or none, and data
\* that is null, has no assignment, or has one
EdgeReplies ==
    [error : BOOLEAN, data : {"null", "empty"},
     title : {Undefined}, description : {Undefined}]
    \cup
    [error : BOOLEAN, data : {"assignment"},
     title : {Undefined, "", "Generated"}, description : {Undefined, "generated text"}]

\* the body of the fallback's response: candidates with content, or none
FallbackBodies == {"candidates", "noCandidates"}

\* lines 56-64: the component as it is mounted, no handler called
UploaderMounted ==
    /\ title = ""
    /\ description = ""
    /\ dueDate = Undefined
    /\ points = "10"
    /\ file = NoFile
    /\ isLoading = FALSE
    /\ isGenerating = FALSE
    /\ generatingProgress = 0
    /\ spc = "idle"
    /\ gpc = "idle"
    /\ dbWrites = <<>>
    /\ notices = <<>>
    /\ edgeCalls = 0
    /\ fallbackCalls = 0
    /\ edgeReply = "none"
    /\ responseOk = FALSE

Init ==
    /\ UploaderMounted
    /\ user = Undefined
    /\ propCourseId = Undefined
    /\ CourseLookupWorlds \/ SubmissionWorlds \/ RecordShapeWorlds
    /\ userId \in UserIds
    /\ pc = "idle"
    /\ courseIds = <<>>
    /\ idx = 0
    /\ coursesMap = [c \in Courses |-> Undefined]
    /\ assignmentsData = <<>>
    /\ result = <<>>
    /\ outcome = "pending"
    /\ toasts = 0
    /\ calls = <<>>
    /\ thrown = {}

(***************************************************************************)
(* Ways the invocation ends or goes on.                                    *)
(***************************************************************************)
\* return <list>
Return(list) ==
    /\ result' = list
    /\ outcome' = "resolved"
    /\ pc' = "done"

\* an outer catch that re-throws
OuterCatchRethrows ==
    /\ toasts' = toasts + 1
    /\ outcome' = "rejected"
    /\ pc' = "done"
    /\ UNCHANGED result

\* lines 598-602: the outer catch
OuterCatch ==
    /\ toasts' = toasts + 1
    /\ Return(<<>>)

\* the call awaited at this point threw
Throws == thrown' = thrown \cup {Len(calls)}

\* lines 533-535: await get(ref(database, `courses/${courseId}`))
IssueCourseGet(ids, i) ==
    /\ pc' = "awaitCourse"
    /\ idx' = i
    /\ calls' = Append(calls, Call("courses", "get", ids[i], i))

\* lines 542-546: await get(ref(database, 'assignments'))
IssueAssignmentsGet(i) ==
    /\ pc' = "awaitAssignments"
    /\ idx' = i
    /\ calls' = Append(calls, Call("assignments", "get", "", i))

\* lines 567-573: await get(query(submissions, orderByChild('user_id'), equalTo(userId)))
IssueSubmissionsQuery ==
    /\ pc' = "awaitSubmissions"
    /\ idx' = 0
    /\ calls' = Append(calls, Call("submissions", "query", userId, 0))

\* a loop that leaves for the submission query after its first round
NextAssignmentsLeavesEarly == IssueSubmissionsQuery

\* the for-of loop of lines 542-564 moves on, or ends and line 573 is reached
NextAssignments ==
    IF idx < Len(courseIds)
    THEN IssueAssignmentsGet(idx + 1)
    ELSE IssueSubmissionsQuery

(***************************************************************************)
(* Actions.                                                                *)
(***************************************************************************)
\* lines 501-514: the guard, then the enrollment query is issued
Invoke ==
    /\ pc = "idle"
    /\ IF Falsy(userId)
       THEN /\ Return(<<>>)
            /\ UNCHANGED calls
       ELSE /\ pc' = "awaitEnrollments"
            /\ calls' = Append(calls, Call("enrollments", "query", userId, 0))
            /\ UNCHANGED <<result, outcome>>
    /\ UNCHANGED <<stores, uploader, courseIds, idx, coursesMap, assignmentsData, toasts, thrown>>

\* lines 514-535: the enrollment snapshot arrives
EnrollmentsReturn ==
    /\ pc = "awaitEnrollments"
    /\ LET snapshot == QueryEqualTo(enrollments, "student_id", userId)
           ids == CourseIdsOf(snapshot)
       IN  IF ~Exists(snapshot) \/ Len(ids) = 0
           THEN /\ Return(<<>>)
                /\ UNCHANGED <<courseIds, idx, calls>>
           ELSE /\ courseIds' = ids
                /\ IssueCourseGet(ids, 1)
                /\ UNCHANGED <<result, outcome>>
    /\ UNCHANGED <<stores, uploader, coursesMap, assignmentsData, toasts, thrown>>

\* line 514 throws
EnrollmentsThrow ==
    /\ pc = "awaitEnrollments"
    /\ Throws
    /\ OuterCatch
    /\ UNCHANGED <<stores, uploader, courseIds, idx, coursesMap, assignmentsData, calls>>

\* lines 535-546: a course snapshot arrives
CourseReturn ==
    /\ pc = "awaitCourse"
    /\ LET courseId == courseIds[idx]
           courseSnapshot == courses[courseId]
       IN  coursesMap' = IF courseSnapshot.exists
                         THEN [coursesMap EXCEPT ![courseId] = courseSnapshot.title]
                         ELSE coursesMap
    /\ IF idx < Len(courseIds)
       THEN IssueCourseGet(courseIds, idx + 1)
       ELSE IssueAssignmentsGet(1)
    /\ UNCHANGED <<stores, uploader, courseIds, assignmentsData, result, outcome, toasts, thrown>>

\* line 535 throws: it is outside the inner try
CourseThrow ==
    /\ pc = "awaitCourse"
    /\ Throws
    /\ OuterCatch
    /\ UNCHANGED <<stores, uploader, courseIds, idx, coursesMap, assignmentsData, calls>>

\* lines 546-573: the assignment collection arrives for courseIds[idx]
AssignmentsReturn ==
    /\ pc = "awaitAssignments"
    /\ assignmentsData' =
           assignmentsData \o MatchAssignments(assignments, coursesMap, courseIds[idx])
    /\ NextAssignments
    /\ UNCHANGED <<stores, uploader, courseIds, coursesMap, result, outcome, toasts, thrown>>

\* line 546 throws and no inner try catches it
AssignmentsThrowAborts ==
    /\ pc = "awaitAssignments"
    /\ thrown' = thrown \cup {Len(calls)}
    /\ toasts' = toasts + 1
    /\ result' = <<>>
    /\ outcome' = "resolved"
    /\ pc' = "done"
    /\ UNCHANGED <<stores, uploader, courseIds, idx, coursesMap, assignmentsData, calls>>

\* line 546 throws: lines 560-563 log it and the loop goes on
AssignmentsThrow ==
    /\ pc = "awaitAssignments"
    /\ Throws
    /\ NextAssignments
    /\ UNCHANGED <<stores, uploader, courseIds, coursesMap, assignmentsData, result, outcome, toasts>>

\* lines 573-597: the submission snapshot arrives, the join, the return
SubmissionsReturn ==
    /\ pc = "awaitSubmissions"
    /\ LET snapshot == QueryEqualTo(submissions, "user_id", userId)
           subs == IF Exists(snapshot) THEN SubmissionsOf(snapshot) ELSE <<>>
       IN  Return(Join(assignmentsData, subs))
    /\ UNCHANGED <<stores, uploader, courseIds, idx, coursesMap, assignmentsData, toasts, calls, thrown>>

\* line 573 throws and what was gathered is returned all the same
SubmissionsThrowKeepsGathered ==
    /\ pc = "awaitSubmissions"
    /\ thrown' = thrown \cup {Len(calls)}
    /\ toasts' = toasts + 1
    /\ result' = Join(assignmentsData, <<>>)
    /\ outcome' = "resolved"
    /\ pc' = "done"
    /\ UNCHANGED <<stores, uploader, courseIds, idx, coursesMap, assignmentsData, calls>>

\* line 573 throws
SubmissionsThrow ==
    /\ pc = "awaitSubmissions"
    /\ Throws
    /\ OuterCatch
    /\ UNCHANGED <<stores, uploader, courseIds, idx, coursesMap, assignmentsData, calls>>

Next ==
    \/ Invoke
    \/ EnrollmentsReturn
    \/ EnrollmentsThrow
    \/ CourseReturn
    \/ CourseThrow
    \/ AssignmentsReturn
    \/ AssignmentsThrow
    \/ SubmissionsReturn
    \/ SubmissionsThrow

Spec == Init /\ [][Next]_vars

\* Termination does not depend on what the records hold beyond the number of
\* enrollments: it is checked from the course-lookup family of initial states.
FairInit == Init /\ CourseLookupWorlds

\* every store call settles, and the continuation of a settled call is run
FairSpec == FairInit /\ [][Next]_vars /\ WF_vars(Next)

TypeOK ==
    /\ pc \in {"idle", "awaitEnrollments", "awaitCourse", "awaitAssignments",
               "awaitSubmissions", "done"}
    /\ outcome \in {"pending", "resolved", "rejected"}
    /\ toasts \in 0..1
    /\ idx \in 0..Len(courseIds)
    /\ thrown \subseteq DOMAIN calls

(***************************************************************************)
(* The AssignmentUploader component: handleSubmit (lines 83-133).          *)
(***************************************************************************)
Notice(kind, message) ==
    notices' = Append(notices, [kind |-> kind, message |-> message])

submitOnly == <<user, propCourseId, isGenerating, generatingProgress, gpc, edgeCalls,
                fallbackCalls, edgeReply, responseOk>>

\* lines 106-116: the record handed to set()
NewAssignment ==
    [course_id |-> propCourseId,
     teacher_id |-> user,
     title |-> title,
     description |-> description,
     due_date |-> IF dueDate = Undefined THEN NullDate ELSE FormatDate(dueDate),
     points |-> PointsOf(points),
     created_at |-> "now",
     file_name |-> file]

\* lines 83-116: the three guards, then the record is handed to set()
SubmitInvoke ==
    /\ spc = "idle"
    /\ IF Falsy(Trim(title))
       THEN /\ Notice("error", "Please enter an assignment title")
            /\ spc' = "done"
            /\ UNCHANGED <<isLoading, dbWrites>>
       ELSE IF Falsy(user)
       THEN /\ Notice("error", "You must be logged in to create an assignment")
            /\ spc' = "done"
            /\ UNCHANGED <<isLoading, dbWrites>>
       ELSE IF Falsy(propCourseId)
       THEN /\ Notice("error", "Course ID is required to create an assignment")
            /\ spc' = "done"
            /\ UNCHANGED <<isLoading, dbWrites>>
       ELSE /\ isLoading' = TRUE
            /\ dbWrites' = Append(dbWrites, NewAssignment)
            /\ spc' = "awaitSet"
            /\ UNCHANGED notices
    /\ UNCHANGED <<fetchVars, submitOnly, title, description, dueDate, points, file>>

\* lines 118-125 and 131: set() resolved
SubmitSetResolves ==
    /\ spc = "awaitSet"
    /\ Notice("success", "Assignment created successfully")
    /\ title' = ""
    /\ description' = ""
    /\ dueDate' = Undefined
    /\ points' = "10"
    /\ file' = NoFile
    /\ isLoading' = FALSE
    /\ spc' = "done"
    /\ UNCHANGED <<fetchVars, submitOnly, dbWrites>>

\* lines 127-131: set() rejected
SubmitSetRejects ==
    /\ spc = "awaitSet"
    /\ Notice("error", "Failed to create assignment")
    /\ isLoading' = FALSE
    /\ spc' = "done"
    /\ UNCHANGED <<fetchVars, submitOnly, dbWrites, title, description, dueDate,
                   points, file>>

(***************************************************************************)
(* The AssignmentUploader component: generateAssignment (lines 135-187)    *)
(* and fallbackToDirectApiCall (lines 189-232).                            *)
(***************************************************************************)
generateOnly == <<user, propCourseId, dueDate, points, file, isLoading, spc, dbWrites>>

\* lines 183-186: the finally block
GenFinally ==
    /\ isGenerating' = FALSE
    /\ generatingProgress' = 0
    /\ gpc' = "done"

\* lines 176/182 and 190-192: the fallback is called and issues its fetch
StartFallback ==
    /\ fallbackCalls' = fallbackCalls + 1
    /\ generatingProgress' = 40
    /\ gpc' = "awaitFetch"
    /\ UNCHANGED isGenerating

\* lines 228-231, then 183-186: the fallback's catch, then the finally block
FallbackFails(message) ==
    /\ Notice("error", message)
    /\ GenFinally
    /\ UNCHANGED <<title, description>>

\* lines 135-153: the guard, then the edge function is invoked
GenInvoke ==
    /\ gpc = "idle"
    /\ IF Falsy(propCourseId)
       THEN /\ Notice("error", "Course ID is required to generate an assignment")
            /\ gpc' = "done"
            /\ UNCHANGED <<isGenerating, generatingProgress, edgeCalls>>
       ELSE /\ isGenerating' = TRUE
            /\ generatingProgress' = 25
            /\ edgeCalls' = edgeCalls + 1
            /\ gpc' = "awaitEdge"
            /\ UNCHANGED notices
    /\ UNCHANGED <<fetchVars, generateOnly, title, description, fallbackCalls,
                   edgeReply, responseOk>>

\* the edge function call throws and nothing falls back
EdgeThrowsNoFallback ==
    /\ gpc = "awaitEdge"
    /\ edgeReply' = "threw"
    /\ GenFinally
    /\ UNCHANGED <<fetchVars, generateOnly, title, description, notices, edgeCalls,
                   fallbackCalls, responseOk>>

\* line 146 throws: lines 178-182
EdgeThrows ==
    /\ gpc = "awaitEdge"
    /\ edgeReply' = "threw"
    /\ StartFallback
    /\ UNCHANGED <<fetchVars, generateOnly, title, description, notices, edgeCalls,
                   responseOk>>

\* lines 146-177: the edge function call returns { data, error }
EdgeReturns ==
    /\ gpc = "awaitEdge"
    /\ \E reply \in EdgeReplies :
        IF reply.error
        THEN \* line 158 throws into lines 178-182
             /\ edgeReply' = "error"
             /\ StartFallback
             /\ UNCHANGED <<title, description, notices>>
        ELSE IF reply.data = "assignment"
        THEN \* lines 162-173, then the finally block
             /\ edgeReply' = "assignment"
             /\ title' = OrElse(reply.title, TopicTitle)
             /\ description' = reply.description
             /\ Notice("success", "Assignment generated successfully")
             /\ GenFinally
             /\ UNCHANGED fallbackCalls
        ELSE \* line 176
             /\ edgeReply' = "noAssignment"
             /\ StartFallback
             /\ UNCHANGED <<title, description, notices>>
    /\ UNCHANGED <<fetchVars, generateOnly, edgeCalls, responseOk>>

\* line 192 throws
FetchThrows ==
    /\ gpc = "awaitFetch"
    /\ FallbackFails("Failed to fetch")
    /\ UNCHANGED <<fetchVars, generateOnly, edgeCalls, fallbackCalls, edgeReply,
                   responseOk>>

\* lines 192-211: the response arrives; either branch awaits response.json()
FetchReturns ==
    /\ gpc = "awaitFetch"
    /\ \E ok \in BOOLEAN : responseOk' = ok
    /\ generatingProgress' = 80
    /\ gpc' = "awaitJson"
    /\ UNCHANGED <<fetchVars, generateOnly, title, description, isGenerating, notices,
                   edgeCalls, fallbackCalls, edgeReply>>

\* line 207 or line 211 throws
JsonThrows ==
    /\ gpc = "awaitJson"
    /\ FallbackFails("Unexpected end of JSON input")
    /\ UNCHANGED <<fetchVars, generateOnly, edgeCalls, fallbackCalls, edgeReply,
                   responseOk>>

\* lines 207-227: the body arrives
JsonReturns ==
    /\ gpc = "awaitJson"
    /\ \E body \in FallbackBodies :
        IF ~responseOk
        THEN FallbackFails("Failed to generate assignment")
        ELSE IF body = "candidates"
        THEN /\ title' = TopicTitle
             /\ description' = "fallback text"
             /\ Notice("success", "Assignment generated successfully using fallback API")
             /\ GenFinally
        ELSE FallbackFails("Invalid response format from API")
    /\ UNCHANGED <<fetchVars, generateOnly, edgeCalls, fallbackCalls, edgeReply,
                   responseOk>>

\* fetchStudentAssignments is not running
FetchIdle ==
    /\ enrollments = <<>>
    /\ courses = TitledCourses
    /\ assignments = <<>>
    /\ submissions = <<>>
    /\ userId = Undefined
    /\ pc = "idle"
    /\ courseIds = <<>>
    /\ idx = 0
    /\ coursesMap = [c \in Courses |-> Undefined]
    /\ assignmentsData = <<>>
    /\ result = <<>>
    /\ outcome = "pending"
    /\ toasts = 0
    /\ calls = <<>>
    /\ thrown = {}

\* the mounted component with whatever the teacher has typed into the form
UploaderInit ==
    /\ FetchIdle
    /\ title \in Titles
    /\ description \in Descriptions
    /\ dueDate \in DueDates
    /\ points \in PointsInputs
    /\ file \in Files
    /\ user \in TeacherIds
    /\ propCourseId \in CourseProps
    /\ isLoading = FALSE
    /\ isGenerating = FALSE
    /\ generatingProgress = 0
    /\ spc = "idle"
    /\ gpc = "idle"
    /\ dbWrites = <<>>
    /\ notices = <<>>
    /\ edgeCalls = 0
    /\ fallbackCalls = 0
    /\ edgeReply = "none"
    /\ responseOk = FALSE

UploaderNext ==
    \/ SubmitInvoke
    \/ SubmitSetResolves
    \/ SubmitSetRejects
    \/ GenInvoke
    \/ EdgeThrows
    \/ EdgeReturns
    \/ FetchThrows
    \/ FetchReturns
    \/ JsonThrows
    \/ JsonReturns

UploaderSpec == UploaderInit /\ [][UploaderNext]_vars

\* every awaited call settles, and the continuation of a settled call is run
UploaderFairSpec == UploaderSpec /\ WF_vars(UploaderNext)

UploaderTypeOK ==
    /\ spc \in {"idle", "awaitSet", "done"}
    /\ gpc \in {"idle", "awaitEdge", "awaitFetch", "awaitJson", "done"}
    /\ generatingProgress \in {0, 25, 40, 80}
    /\ Len(dbWrites) <= 1
    /\ edgeReply \in {"none", "threw", "error", "noAssignment", "assignment"}

(***************************************************************************)
(* What the properties speak about, read off the state and the stores      *)
(* without the routine's own helpers.                                      *)
(***************************************************************************)
RECURSIVE Flatten(_)
Flatten(ss) == IF ss = <<>> THEN <<>> ELSE Head(ss) \o Flatten(Tail(ss))

\* positions in calls of the calls to a store that threw
ThrewIn(store) == {k \in thrown : calls[k].store = store}

\* positions in courseIds whose assignment fetch threw
AssignmentsFailedAt == {calls[k].at : k \in ThrewIn("assignments")}

\* course ids whose get-by-id threw, and those whose get-by-id returned
CoursesFailed == {calls[k].arg : k \in ThrewIn("courses")}
CoursesAnswered ==
    {calls[k].arg : k \in {n \in DOMAIN calls :
        /\ calls[n].store = "courses"
        /\ n \notin thrown
        /\ (n < Len(calls) \/ pc # "awaitCourse")}}

ResultIds == [i \in DOMAIN result |-> result[i].id]

\* course_id of the student's enrollment records, in store order
EnrolledCourseSeq ==
    LET mine == SelectSeq(enrollments, LAMBDA e : e.student_id = userId)
    IN  [i \in DOMAIN mine |-> mine[i].course_id]

\* keys of the assignments of course c, in store order
KeysOfCourse(c) ==
    SelectSeq([k \in DOMAIN assignments |-> k], LAMBDA k : assignments[k].course_id = c)

HasNoTitle(node) == ~node.exists \/ node.title \in {Undefined, ""}

(***************************************************************************)
(* C1: every returned view is flagged submitted exactly when the           *)
(* Submission Store holds a submission of the queried student for the      *)
(* view's id, and carries a submission exactly when it is flagged.         *)
(***************************************************************************)
C1_SubmittedIffSubmissionExists ==
    pc = "done" =>
        \A i \in DOMAIN result :
            /\ result[i].submitted <=>
                   \E k \in DOMAIN submissions :
                       /\ submissions[k].assignment_id = result[i].id
                       /\ submissions[k].user_id = userId
            /\ (result[i].submission # Null) <=> result[i].submitted

\* a submitted and an unsubmitted view side by side, the unsubmitted one
\* having a submission of another student
C1_Witness ==
    /\ pc = "done"
    /\ \E i, j \in DOMAIN result :
        /\ result[i].submitted
        /\ ~result[j].submitted
        /\ \E k \in DOMAIN submissions :
            submissions[k].assignment_id = result[j].id

(***************************************************************************)
(* C2: when an assignment fetch throws for some course, the loop goes on   *)
(* to every remaining course, no notification is raised for it, and the    *)
(* assignments of every course whose fetch succeeded are in the returned   *)
(* list (the list returned when the submission query that follows does     *)
(* not throw).                                                             *)
(***************************************************************************)
C2_PartialFetchFailureTolerated ==
    AssignmentsFailedAt # {} =>
        /\ ThrewIn("submissions") = {} => toasts = 0
        /\ pc = "done" =>
            \A j \in DOMAIN courseIds :
                \E k \in DOMAIN calls :
                    calls[k].store = "assignments" /\ calls[k].at = j
        /\ (pc = "done" /\ ThrewIn("submissions") = {}) =>
            \A j \in DOMAIN courseIds \ AssignmentsFailedAt :
                \A a \in DOMAIN assignments :
                    assignments[a].course_id = courseIds[j] =>
                        \E i \in DOMAIN result : result[i].id = a

\* one course's fetch threw, another course's assignments were returned
C2_Witness ==
    /\ pc = "done"
    /\ AssignmentsFailedAt # {}
    /\ result # <<>>
    /\ toasts = 0
    /\ \E a \in DOMAIN assignments :
        /\ \E j \in AssignmentsFailedAt : courseIds[j] = assignments[a].course_id
        /\ \A i \in DOMAIN result : result[i].id # a

(***************************************************************************)
(* C3: when the Course Store get-by-id throws for one course and returns   *)
(* for another, the assignments of the course that returned are in the     *)
(* result under its real title and those of the course that threw are in   *)
(* the result as "Unknown Course".                                         *)
(***************************************************************************)
C3_CourseStoreFailureIsLookupMiss ==
    (pc = "done" /\ CoursesFailed # {} /\ CoursesAnswered \ CoursesFailed # {}) =>
        \A a \in DOMAIN assignments :
            LET c == assignments[a].course_id
            IN  /\ c \in CoursesFailed =>
                    \E i \in DOMAIN result :
                        /\ result[i].id = a
                        /\ result[i].course_name = "Unknown Course"
                /\ (c \in CoursesAnswered \ CoursesFailed /\ ~HasNoTitle(courses[c])) =>
                    \E i \in DOMAIN result :
                        /\ result[i].id = a
                        /\ result[i].course_name = courses[c].title

(***************************************************************************)
(* C4: every invocation ends, and ends by resolving: it never rejects,     *)
(* whichever store calls throw.                                            *)
(***************************************************************************)
C4_AlwaysResolves ==
    /\ <>(pc = "done" /\ outcome = "resolved")
    /\ [](outcome # "rejected")

\* an invocation that resolved although a store call threw
C4_Witness ==
    /\ pc = "done"
    /\ outcome = "resolved"
    /\ thrown # {}

(***************************************************************************)
(* C5: when the enrollment query or the submission query throws, exactly   *)
(* one error notification is raised and the empty list is returned, also   *)
(* when assignments had been gathered before.                              *)
(***************************************************************************)
C5_TotalFailureNotifiesAndReturnsEmpty ==
    (pc = "done" /\ (ThrewIn("enrollments") # {} \/ ThrewIn("submissions") # {})) =>
        /\ toasts = 1
        /\ result = <<>>

\* the submission query threw after assignments had been gathered
C5_Witness ==
    /\ pc = "done"
    /\ ThrewIn("submissions") # {}
    /\ assignmentsData # <<>>

(***************************************************************************)
(* C6: for an empty or undefined studentId no store is called, no          *)
(* notification is raised and the empty list is returned.                  *)
(***************************************************************************)
C6_NoStudentNoStoreCall ==
    userId \in {Undefined, ""} =>
        /\ calls = <<>>
        /\ toasts = 0
        /\ pc = "done" => (result = <<>> /\ outcome = "resolved")

\* the empty studentId, returned, with stores that hold data
C6_Witness ==
    /\ userId = ""
    /\ pc = "done"
    /\ enrollments # <<>>
    /\ assignments # <<>>

(***************************************************************************)
(* C7: a course with several enrollment records of the student is          *)
(* processed once and each of its assignments is returned once.            *)
(***************************************************************************)
C7_DistinctCourseIds ==
    (pc = "done" /\ thrown = {}) =>
        /\ \A i, j \in DOMAIN courseIds : courseIds[i] = courseIds[j] => i = j
        /\ \A i, j \in DOMAIN result : result[i].id = result[j].id => i = j

(***************************************************************************)
(* C8: a view's textContent is the stored textContent when the record has  *)
(* one, also when the record has a different non-empty description, and    *)
(* is the description when the record has no textContent; its              *)
(* assignmentType is the stored one when present and "text" otherwise.     *)
(***************************************************************************)
C8_TextContentDefaultsToDescription ==
    pc = "done" =>
        \A i \in DOMAIN result :
            LET stored == assignments[result[i].id]
            IN  /\ stored.textContent \notin {Undefined, ""} =>
                       result[i].textContent = stored.textContent
                /\ (stored.textContent = Undefined /\ stored.description # "") =>
                       result[i].textContent = stored.description
                /\ result[i].assignmentType =
                       IF stored.assignmentType # Undefined
                       THEN stored.assignmentType
                       ELSE "text"

(***************************************************************************)
(* C9: a view's course_name is "Unknown Course" when the course record is  *)
(* missing or has no or an empty title, and the record's title otherwise.  *)
(***************************************************************************)
C9_CourseNameOrUnknown ==
    pc = "done" =>
        \A i \in DOMAIN result :
            LET node == courses[result[i].course_id]
            IN  result[i].course_name =
                    IF HasNoTitle(node) THEN "Unknown Course" ELSE node.title

\* a view of a course without a usable title beside a view of a titled course
C9_Witness ==
    /\ pc = "done"
    /\ \E i, j \in DOMAIN result :
        /\ result[i].course_name = "Unknown Course"
        /\ HasNoTitle(courses[result[i].course_id])
        /\ result[j].course_name = CourseTitle(result[j].course_id)

(***************************************************************************)
(* C10: when no store call throws, the returned list is the concatenation, *)
(* over the course ids of the student's enrollment records in store order, *)
(* of the assignments of that course in store order.                       *)
(***************************************************************************)
C10_ConcatenationInStoreOrder ==
    (pc = "done" /\ thrown = {}) =>
        /\ ResultIds =
               Flatten([i \in DOMAIN EnrolledCourseSeq |->
                           KeysOfCourse(EnrolledCourseSeq[i])])
        /\ \A i \in DOMAIN result :
               result[i].course_id = assignments[result[i].id].course_id

\* two courses' assignments returned in enrollment order, against key order
C10_Witness ==
    /\ pc = "done"
    /\ thrown = {}
    /\ \E i, j \in DOMAIN result :
        /\ i < j
        /\ result[i].id > result[j].id
        /\ result[i].course_id # result[j].course_id

(***************************************************************************)
(* C11: the store calls of an invocation are, in this order, one           *)
(* enrollment query, one course get-by-id per collected course id, one     *)
(* full assignment fetch per collected course id, and one submission       *)
(* query: what has been called so far is always a beginning of that list   *)
(* and an invocation that ends outside the outer catch has called all of   *)
(* it; the submission query is issued at most once and no call is a write. *)
(***************************************************************************)
ExpectedCalls ==
    LET ids == EnrolledCourseSeq
    IN  <<[store |-> "enrollments", op |-> "query", arg |-> userId, at |-> 0]>>
        \o [i \in DOMAIN ids |->
               [store |-> "courses", op |-> "get", arg |-> ids[i], at |-> i]]
        \o [i \in DOMAIN ids |->
               [store |-> "assignments", op |-> "get", arg |-> "", at |-> i]]
        \o <<[store |-> "submissions", op |-> "query", arg |-> userId, at |-> 0]>>

IsPrefix(s, t) == Len(s) <= Len(t) /\ \A i \in DOMAIN s : s[i] = t[i]

C11_StoreCallsInFixedOrder ==
    /\ IsPrefix(calls, ExpectedCalls)
    /\ (pc = "done" /\ toasts = 0 /\ EnrolledCourseSeq # <<>>) => calls = ExpectedCalls
    /\ Cardinality({k \in DOMAIN calls : calls[k].store = "submissions"}) <= 1
    /\ \A k \in DOMAIN calls : calls[k].op \in {"query", "get"}

\* a finished invocation over two course ids with two assignments returned:
\* six calls, one of them the submission query
C11_Witness ==
    /\ pc = "done"
    /\ Len(courseIds) = 2
    /\ Len(result) = 2
    /\ Len(calls) = 6
    /\ calls[6].store = "submissions"

(***************************************************************************)
(* What the properties of the component speak about.                       *)
(***************************************************************************)
\* titles that are blank after trimming
BlankTitles == {"", "  "}

\* title, user id and courseId are all there
SubmitAllowed ==
    /\ title \notin BlankTitles
    /\ user \notin {Undefined, ""}
    /\ propCourseId \notin {Undefined, ""}

formFields == <<title, description, dueDate, points, file>>

FormIsReset ==
    /\ title = ""
    /\ description = ""
    /\ dueDate = Undefined
    /\ points = "10"
    /\ file = NoFile

\* the step raised exactly one notice, of this kind
Raised(kind) ==
    /\ Len(notices') = Len(notices) + 1
    /\ notices'[Len(notices')].kind = kind

(***************************************************************************)
(* C12: handleSubmit hands a record to the database only when the title is *)
(* non-blank after trimming, a user id exists and courseId is present;     *)
(* otherwise it writes nothing, raises an error notice and leaves          *)
(* isLoading false.  When the write settles isLoading is false again, and  *)
(* the form fields are reset when it succeeded and untouched when it       *)
(* failed; nothing else resets them.                                       *)
(***************************************************************************)
C12_Step ==
    /\ (spc = "idle" /\ spc' # "idle") =>
           IF SubmitAllowed
           THEN /\ spc' = "awaitSet"
                /\ Len(dbWrites') = Len(dbWrites) + 1
                /\ dbWrites'[Len(dbWrites')].title = title
                /\ dbWrites'[Len(dbWrites')].teacher_id = user
                /\ dbWrites'[Len(dbWrites')].course_id = propCourseId
           ELSE /\ spc' = "done"
                /\ dbWrites' = dbWrites
                /\ Raised("error")
                /\ ~isLoading /\ ~isLoading'
    /\ dbWrites' # dbWrites => (spc = "idle" /\ SubmitAllowed)
    /\ (spc = "awaitSet" /\ spc' # "awaitSet") =>
           /\ spc' = "done"
           /\ ~isLoading'
           /\ \/ Raised("success") /\ FormIsReset'
              \/ Raised("error") /\ UNCHANGED formFields
    /\ <<dueDate, points, file>>' # <<dueDate, points, file>> =>
           (spc = "awaitSet" /\ Raised("success"))

C12_SubmitWritesOnlyWhenComplete == [][C12_Step]_vars

\* a write that failed: the record was handed over, the error was raised and
\* the form still holds what was typed
C12_Witness ==
    /\ spc = "done"
    /\ Len(dbWrites) = 1
    /\ \E i \in DOMAIN notices : notices[i].message = "Failed to create assignment"
    /\ dbWrites[1].title = " Essay "
    /\ title = " Essay "
    /\ file = "essay.pdf"
    /\ ~isLoading

(***************************************************************************)
(* C13: with a courseId, generateAssignment calls the direct-API fallback  *)
(* exactly once when the edge function call throws, returns an error or    *)
(* returns no assignment, and never when it returns an assignment; every   *)
(* call completes, with isGenerating false and generatingProgress 0, also  *)
(* when the fallback fails; without a courseId neither the edge function   *)
(* nor the fallback is called.                                             *)
(***************************************************************************)
C13_State ==
    /\ edgeCalls <= 1
    /\ fallbackCalls <= 1
    /\ edgeReply \in {"threw", "error", "noAssignment"} => fallbackCalls = 1
    /\ edgeReply \in {"none", "assignment"} => fallbackCalls = 0
    /\ gpc = "done" => (~isGenerating /\ generatingProgress = 0)
    /\ propCourseId \in {Undefined, ""} => (edgeCalls = 0 /\ fallbackCalls = 0)
    /\ (propCourseId \notin {Undefined, ""} /\ gpc # "idle") => edgeCalls = 1

C13_FallbackExactlyOnce ==
    /\ []C13_State
    /\ <>(gpc = "done")

\* the edge function returned no assignment and the fallback failed in turn
C13_Witness ==
    /\ gpc = "done"
    /\ edgeReply = "noAssignment"
    /\ fallbackCalls = 1
    /\ \E i \in DOMAIN notices : notices[i].message = "Invalid response format from API"
    /\ ~isGenerating
    /\ generatingProgress = 0
====
